---- MODULE Spec2Model ----
(***************************************************************************)
(* Model of the full-stack code generator (generator.js and its sibling    *)
(* variant): option parsing, schema load, flag destructuring, folder       *)
(* skeleton, the sequence of un-awaited render() calls, the asynchronous   *)
(* completion of those renders and the end of the process.                 *)
(*                                                                         *)
(* JavaScript values are strings: "true", "false", "null", "absent"        *)
(* (absent = the property is not in the JSON document = undefined).        *)
(* Identifiers (entity names, table names) are sequences of one-character  *)
(* strings, so that the naming functions work on characters.               *)
(***************************************************************************)
EXTENDS Integers, Sequences, FiniteSets, TLC

\* ------------------------------------------------------------------ bounds
MaxEntities == 2   \* longest entity list of an input schema
MaxOvertake == 1   \* a render may complete while renders called up to this many calls before it are pending
MaxNameLen == 3    \* longest identifier handed to the naming functions
MaxApply == 2      \* longest chain of naming functions applied to one identifier

\* ------------------------------------------------------------- characters
UpperSeq == << "A","B","C","D","E","F","G","H","I","J","K","L","M",
               "N","O","P","Q","R","S","T","U","V","W","X","Y","Z" >>
LowerSeq == << "a","b","c","d","e","f","g","h","i","j","k","l","m",
               "n","o","p","q","r","s","t","u","v","w","x","y","z" >>

IsUpper(c) == \E n \in 1..Len(UpperSeq) : UpperSeq[n] = c

\* String.prototype.toLowerCase, one character
toLowerCase(c) ==
  IF IsUpper(c) THEN LowerSeq[CHOOSE n \in 1..Len(UpperSeq) : UpperSeq[n] = c] ELSE c

\* s.replace(/([A-Z])/g, '-$1'): a hyphen before EVERY upper-case character
RECURSIVE HyphenateUpper(_)
HyphenateUpper(s) ==
  IF s = << >> THEN << >>
  ELSE (IF IsUpper(Head(s)) THEN << "-", Head(s) >> ELSE << Head(s) >>)
       \o HyphenateUpper(Tail(s))

\* toKebab = s => s.replace(/([A-Z])/g, '-$1').toLowerCase()
toKebab(s) == LET h == HyphenateUpper(s) IN [n \in 1..Len(h) |-> toLowerCase(h[n])]

\* String.prototype.toUpperCase, one character
toUpperCase(c) ==
  IF \E n \in 1..Len(LowerSeq) : LowerSeq[n] = c
    THEN UpperSeq[CHOOSE n \in 1..Len(LowerSeq) : LowerSeq[n] = c]
    ELSE c

\* the regular-expression class \w: letters, digits, underscore
IsWord(c) ==
  \/ IsUpper(c)
  \/ \E n \in 1..Len(LowerSeq) : LowerSeq[n] = c
  \/ c \in { "0","1","2","3","4","5","6","7","8","9","_" }

\* s.replace(/(^\w|-\w)/g, c => c.replace('-', '').toUpperCase()), scanning
\* from the left; atStart: the scan is at index 0 of the string
RECURSIVE ReplacePascal(_, _)
ReplacePascal(s, atStart) ==
  IF s = << >> THEN << >>
  ELSE IF atStart /\ IsWord(Head(s))
    THEN << toUpperCase(Head(s)) >> \o ReplacePascal(Tail(s), FALSE)
  ELSE IF Head(s) = "-" /\ Len(s) >= 2 /\ IsWord(s[2])
    THEN << toUpperCase(s[2]) >> \o ReplacePascal(Tail(Tail(s)), FALSE)
  ELSE << Head(s) >> \o ReplacePascal(Tail(s), FALSE)

\* toPascal = s => s.replace(/(^\w|-\w)/g, c => c.replace('-', '').toUpperCase())
toPascal(s) == ReplacePascal(s, TRUE)

\* toCamel = s => s[0].toLowerCase() + toPascal(s).slice(1)
toCamel(s) == << toLowerCase(s[1]) >> \o Tail(toPascal(s))

\* ------------------------------------------------------------------ paths
\* A destination path is dir ++ sub ++ ("/" when sub is not empty)
\*   ++ (stamp ++ "-create-" when stamp > 0) ++ base ++ ext.
\* dir and ext are literal text of the source; sub and base are the parts
\* computed from entity data; stamp is a Date.now() reading (0 = none).
Path(dir, sub, stamp, base, ext) ==
  [dir |-> dir, sub |-> sub, stamp |-> stamp, base |-> base, ext |-> ext]

\* A literal path of the source
Lit(dir, file) == Path(dir, << >>, 0, << >>, file)

\* One render(src, dest, data) call: template id, destination, and the
\* index of the entity in data.ent (0 when the call has no ent).
Call(tmpl, dest, ent) == [tmpl |-> tmpl, dest |-> dest, ent |-> ent]

Fixed(tmpl, dir, file) == Call(tmpl, Lit(dir, file), 0)

ROUTES == "backend/src/routes/"
FEATURES == "frontend/src/app/features/"

\* ------------------------------------------------------- fixed artifacts
DockerFiles ==
  << Fixed("docker/Dockerfile.backend", "backend/", "Dockerfile"),
     Fixed("docker/Dockerfile.frontend", "frontend/", "Dockerfile"),
     Fixed("docker/docker-compose.yml", "", "docker-compose.yml") >>

CiFiles ==
  << Fixed("ci/github-workflow.yml", ".github/workflows/", "ci.yml") >>

TerraformFiles ==
  << Fixed("terraform/main.tf", "terraform/", "main.tf"),
     Fixed("terraform/variables.tf", "terraform/", "variables.tf"),
     Fixed("terraform/outputs.tf", "terraform/", "outputs.tf"),
     Fixed("terraform/terraform.tfvars.example", "terraform/", "terraform.tfvars.example") >>

BackendCommon ==
  << Fixed("backend/package.json.ejs", "backend/", "package.json"),
     Fixed("backend/tsconfig.json.ejs", "backend/", "tsconfig.json"),
     Fixed("backend/.env.example", "backend/", ".env.example"),
     Fixed("backend/src/server.ts.ejs", "backend/src/", "server.ts"),
     Fixed("backend/src/config/database.ts.ejs", "backend/src/config/", "database.ts"),
     Fixed("backend/src/middleware/auth.ts.ejs", "backend/src/middleware/", "auth.ts"),
     Fixed("backend/src/middleware/upload.ts.ejs", "backend/src/middleware/", "upload.ts"),
     Fixed("backend/src/middleware/error.ts.ejs", "backend/src/middleware/", "error.ts") >>

\* routes/auth.ts: in the routes directory, where per-entity route files land
AuthRoute ==
  Call("backend/src/routes/auth.ts.ejs", Path(ROUTES, << >>, 0, << "a","u","t","h" >>, ".ts"), 0)

\* routes/index.ts
RouteIndex ==
  Call("backend/src/routes/index.ts.ejs", Path(ROUTES, << >>, 0, << "i","n","d","e","x" >>, ".ts"), 0)

GraphqlFiles ==
  << Fixed("backend/src/graphql/typeDefs.ts.ejs", "backend/src/graphql/", "typeDefs.ts"),
     Fixed("backend/src/graphql/resolvers.ts.ejs", "backend/src/graphql/", "resolvers.ts") >>

FrontendFixed ==
  << Fixed("frontend/package.json.ejs", "frontend/", "package.json"),
     Fixed("frontend/angular.json.ejs", "frontend/", "angular.json"),
     Fixed("frontend/tsconfig.json.ejs", "frontend/", "tsconfig.json"),
     Fixed("frontend/src/index.html.ejs", "frontend/src/", "index.html"),
     Fixed("frontend/src/main.ts.ejs", "frontend/src/", "main.ts"),
     Fixed("frontend/src/polyfills.ts.ejs", "frontend/src/", "polyfills.ts"),
     Fixed("frontend/src/styles.scss.ejs", "frontend/src/", "styles.scss"),
     Fixed("frontend/src/app/app.module.ts.ejs", "frontend/src/app/", "app.module.ts"),
     Fixed("frontend/src/app/app-routing.module.ts.ejs", "frontend/src/app/", "app-routing.module.ts"),
     Fixed("frontend/src/app/app.component.html.ejs", "frontend/src/app/", "app.component.html"),
     Fixed("frontend/src/app/app.component.ts.ejs", "frontend/src/app/", "app.component.ts"),
     Fixed("frontend/src/app/core/auth/auth.service.ts.ejs", "frontend/src/app/core/auth/", "auth.service.ts"),
     Fixed("frontend/src/app/core/auth/jwt.interceptor.ts.ejs", "frontend/src/app/core/auth/", "jwt.interceptor.ts"),
     Fixed("frontend/src/app/core/auth/auth.guard.ts.ejs", "frontend/src/app/core/auth/", "auth.guard.ts") >>

AdminFiles ==
  << Fixed("frontend/src/app/@theme/@theme.module.ts.ejs", "frontend/src/app/@theme/", "@theme.module.ts"),
     Fixed("frontend/src/app/@theme/styles/themes.scss.ejs", "frontend/src/app/@theme/styles/", "themes.scss"),
     Fixed("frontend/src/app/pages/pages.module.ts.ejs", "frontend/src/app/pages/", "pages.module.ts"),
     Fixed("frontend/src/app/pages/dashboard/dashboard.component.html.ejs", "frontend/src/app/pages/dashboard/", "dashboard.component.html"),
     Fixed("frontend/src/app/pages/dashboard/dashboard.component.ts.ejs", "frontend/src/app/pages/dashboard/", "dashboard.component.ts") >>

\* --------------------------------------------------- per-entity artifacts
\* ModelCalls with the test file name carrying the timestamp too
ModelCalls_stampedTest(e, n, now) ==
  << Call("backend/src/models/model.ts.ejs", Path("backend/src/models/", << >>, 0, e.name, ".ts"), n),
     Call("backend/migrations/create-table.ts.ejs", Path("backend/migrations/", << >>, now, e.tableName, ".ts"), n),
     Call("backend/tests/model.test.ts.ejs", Path("backend/tests/", << >>, now, e.name, ".test.ts"), n) >>

\* Body of the "Models + migrations + tests" loop for entity e (index n),
\* with now = the value Date.now() returned in that iteration.
ModelCalls(e, n, now) ==
  << Call("backend/src/models/model.ts.ejs", Path("backend/src/models/", << >>, 0, e.name, ".ts"), n),
     Call("backend/migrations/create-table.ts.ejs", Path("backend/migrations/", << >>, now, e.tableName, ".ts"), n),
     Call("backend/tests/model.test.ts.ejs", Path("backend/tests/", << >>, 0, e.name, ".test.ts"), n) >>

\* Body of the "Controllers + routes" loop
ControllerCalls(e, n) ==
  << Call("backend/src/controllers/controller.ts.ejs", Path("backend/src/controllers/", << >>, 0, e.name, "Controller.ts"), n),
     Call("backend/src/routes/route.ts.ejs", Path(ROUTES, << >>, 0, toKebab(e.name), ".ts"), n) >>

\* Directory ensured by the "Feature modules" loop: features/<kebab>
FeaturePath(e) == [dir |-> FEATURES, sub |-> toKebab(e.name)]

\* Body of the "Feature modules" loop
FeatureCalls(e, n) ==
  LET kebab == toKebab(e.name)
      F(tmpl, ext) == Call(tmpl, Path(FEATURES, kebab, 0, kebab, ext), n)
  IN << F("frontend/src/app/features/entity/entity.module.ts.ejs", ".module.ts"),
        F("frontend/src/app/features/entity/entity.service.ts.ejs", ".service.ts"),
        F("frontend/src/app/features/entity/entity-list.component.html.ejs", "-list.component.html"),
        F("frontend/src/app/features/entity/entity-list.component.ts.ejs", "-list.component.ts"),
        F("frontend/src/app/features/entity/entity-form.component.html.ejs", "-form.component.html"),
        F("frontend/src/app/features/entity/entity-form.component.ts.ejs", "-form.component.ts") >>

\* ------------------------------------------------------------------ state
VARIABLES
  variant,          \* which of the two source variants runs
  schemaStatus,     \* the file at schemaPath: "ok", "missing" or "malformed"
  schemaFlags,      \* the five flag fields of the schema document
  schemaEntities,   \* the entities field of the schema document
  opts,             \* program.opts(): the five command-line flags
  missingTemplates, \* template ids whose ejs.renderFile rejects
  pc,               \* position of the main script / phase of the process
  flags,            \* the destructured graphql, docker, ci, terraform, adminPanel
  entities,         \* the destructured entities
  dirs,             \* the dirs array of the folder skeleton
  i,                \* index of the running for..of loop
  clock,            \* last value returned by Date.now()
  plan,             \* the render() calls made so far, in call order
  written,          \* indices of plan whose render reached outputFileSync
  failed,           \* indices of plan whose render promise rejected
  printed,          \* "Project generated at" was logged
  exitCode,         \* "running", "ok" (0) or "error" (non-zero)
  diskFiles,        \* files under outDir
  diskDirs,         \* directories under outDir
  prevPlan,         \* the render() calls of the previous run of the program (<< >>: none)
  name,             \* an identifier a template hands to the naming functions
  cur,              \* the value obtained from name by the functions applied so far
  applied,          \* the naming functions applied to name, in order
  schema,           \* the string fields of the schema document
  data,             \* the third argument of a render() call
  context           \* the object render() hands to ejs.renderFile

vars == << variant, schemaStatus, schemaFlags, schemaEntities, opts, missingTemplates,
           pc, flags, entities, dirs, i, clock, plan, written, failed, printed,
           exitCode, diskFiles, diskDirs, prevPlan, name, cur, applied,
           schema, data, context >>

\* what a template computes with the naming functions
naming == << name, cur, applied >>

\* one render() call seen alone: its schema, its data and the context it builds
rendering == << schema, data, context >>

\* what the steps of the main script and of the renders leave alone
input == << variant, schemaStatus, schemaFlags, schemaEntities, opts, missingTemplates, prevPlan,
            naming, rendering >>

FlagNames == { "graphql", "docker", "ci", "terraform", "adminPanel" }

Truthy(v) == v = "true"

\* const { graphql = enableGraphQL, ... } = schema: a destructuring default
\* applies when the property is undefined (absent), and only then.
Destructure(v, dflt) == IF v = "absent" THEN dflt ELSE v

Dir(d) == [dir |-> d, sub |-> << >>]

\* the directory outputFileSync creates for a destination
DirOf(p) == [dir |-> p.dir, sub |-> p.sub]

\* The flag a gate reads. generator.js gates the skeleton directories, the
\* GraphQL files and the admin files on the command-line constants
\* (enableAdmin, enableTerraform, enableGraphQL); the sibling variant gates
\* them on the destructured variables. Both gate root files on the latter.
SkeletonGate(f) == IF variant = "generator.js" THEN opts[f] ELSE flags[f]
GraphqlGate == IF variant = "generator.js" THEN opts["graphql"] ELSE flags["graphql"]
AdminGate == IF variant = "generator.js" THEN opts["adminPanel"] ELSE flags["adminPanel"]

BaseDirs ==
  << Dir("backend/src/models/"), Dir("backend/src/controllers/"), Dir("backend/src/routes/"),
     Dir("backend/src/middleware/"), Dir("backend/src/graphql/"), Dir("backend/tests/"),
     Dir("backend/uploads/"), Dir("frontend/src/app/core/"), Dir("frontend/src/app/features/"),
     Dir("frontend/src/app/shared/") >>

AdminDirs == << Dir("frontend/src/app/@theme/layouts/"), Dir("frontend/src/app/pages/") >>
TerraformDirs == << Dir("terraform/") >>

\* the dirs array after the two conditional pushes
SkeletonDirs ==
  BaseDirs \o (IF Truthy(SkeletonGate("adminPanel")) THEN AdminDirs ELSE << >>)
           \o (IF Truthy(SkeletonGate("terraform")) THEN TerraformDirs ELSE << >>)

Range(s) == { s[n] : n \in 1..Len(s) }

\* dirs.forEach(d => fs.ensureDirSync(d)) on an emptied output directory
EnsuredDirs(ds) == Range(ds)

BackendFixed ==
  IF variant = "generator.js" THEN BackendCommon ELSE BackendCommon \o << AuthRoute >>

\* ---------------------------------------------------------------- actions
\* LoadFail with the output directory emptied before the schema is checked
LoadFail_afterClear ==
  /\ pc = "load"
  /\ schemaStatus # "ok"
  /\ pc' = "exit"
  /\ exitCode' = "error"
  /\ diskFiles' = { }
  /\ UNCHANGED << input, flags, entities, dirs, i, clock, plan, written, failed,
                  printed, diskDirs >>

\* Schema missing (console.error + process.exit(1)) or not JSON (JSON.parse
\* throws, uncaught): the process ends before anything else runs.
LoadFail ==
  /\ pc = "load"
  /\ schemaStatus # "ok"
  /\ pc' = "exit"
  /\ exitCode' = "error"
  /\ UNCHANGED << input, flags, entities, dirs, i, clock, plan, written, failed,
                  printed, diskFiles, diskDirs >>

LoadOk ==
  /\ pc = "load"
  /\ schemaStatus = "ok"
  /\ flags' = [f \in FlagNames |-> Destructure(schemaFlags[f], opts[f])]
  /\ entities' = schemaEntities
  /\ pc' = "skeleton"
  /\ UNCHANGED << input, dirs, i, clock, plan, written, failed, printed, exitCode,
                  diskFiles, diskDirs >>

\* Skeleton with an emptyDir that is not awaited: the directory is not yet
\* emptied when the script goes on
Skeleton_deferredClear ==
  /\ pc = "skeleton"
  /\ dirs' = SkeletonDirs
  /\ diskDirs' = diskDirs \cup EnsuredDirs(SkeletonDirs)
  /\ pc' = "root"
  /\ UNCHANGED << input, flags, entities, i, clock, plan, written, failed, printed,
                  exitCode, diskFiles >>

\* fs.emptyDirSync(outDir); build dirs; dirs.forEach(ensureDirSync)
Skeleton ==
  /\ pc = "skeleton"
  /\ dirs' = SkeletonDirs
  /\ diskFiles' = { }
  /\ diskDirs' = EnsuredDirs(SkeletonDirs)
  /\ pc' = "root"
  /\ UNCHANGED << input, flags, entities, i, clock, plan, written, failed, printed, exitCode >>

\* A straight-line section of the script that only calls render(): the
\* calls are appended to the plan, nothing is written yet (render awaits).
Section(at, calls, next) ==
  /\ pc = at
  /\ plan' = plan \o calls
  /\ pc' = next
  /\ i' = 1
  /\ UNCHANGED << input, flags, entities, dirs, clock, written, failed, printed,
                  exitCode, diskFiles, diskDirs >>

RootCalls ==
  (IF Truthy(flags["docker"]) THEN DockerFiles ELSE << >>)
  \o (IF Truthy(flags["ci"]) THEN CiFiles ELSE << >>)
  \o (IF Truthy(flags["terraform"]) THEN TerraformFiles ELSE << >>)

RootFiles == Section("root", RootCalls, "backend")

Backend == Section("backend", BackendFixed, "models")

\* for (const ent of entities) { model, migration (Date.now()), test }
ModelsLoop ==
  /\ pc = "models"
  /\ IF i <= Len(entities)
       THEN /\ clock' \in { clock, clock + 1 }
            /\ plan' = plan \o ModelCalls(entities[i], i, clock')
            /\ i' = i + 1
            /\ pc' = pc
       ELSE /\ i' = 1
            /\ pc' = "controllers"
            /\ UNCHANGED << clock, plan >>
  /\ UNCHANGED << input, flags, entities, dirs, written, failed, printed, exitCode,
                  diskFiles, diskDirs >>

\* for (const ent of entities) { controller, route }
ControllersLoop ==
  /\ pc = "controllers"
  /\ IF i <= Len(entities)
       THEN /\ plan' = plan \o ControllerCalls(entities[i], i)
            /\ i' = i + 1
            /\ pc' = pc
       ELSE /\ i' = 1
            /\ pc' = "index"
            /\ UNCHANGED plan
  /\ UNCHANGED << input, flags, entities, dirs, clock, written, failed, printed, exitCode,
                  diskFiles, diskDirs >>

\* IndexCalls with the GraphQL block moved above the routes/index.ts call
IndexCalls_graphqlFirst == (IF Truthy(GraphqlGate) THEN GraphqlFiles ELSE << >>) \o << RouteIndex >>

IndexCalls == << RouteIndex >> \o (IF Truthy(GraphqlGate) THEN GraphqlFiles ELSE << >>)

IndexAndGraphql == Section("index", IndexCalls, "frontend")

Frontend == Section("frontend", FrontendFixed, "features")

\* for (const ent of entities) { ensureDirSync(featurePath); six renders }
FeaturesLoop ==
  /\ pc = "features"
  /\ IF i <= Len(entities)
       THEN /\ diskDirs' = diskDirs \cup { FeaturePath(entities[i]) }
            /\ plan' = plan \o FeatureCalls(entities[i], i)
            /\ i' = i + 1
            /\ pc' = pc
       ELSE /\ i' = 1
            /\ pc' = "admin"
            /\ UNCHANGED << plan, diskDirs >>
  /\ UNCHANGED << input, flags, entities, dirs, clock, written, failed, printed, exitCode,
                  diskFiles >>

AdminCalls == IF Truthy(AdminGate) THEN AdminFiles ELSE << >>

Admin == Section("admin", AdminCalls, "done")

\* console.log(`Project generated at: ...`): the script ends, the event
\* loop starts running the render continuations.
Done ==
  /\ pc = "done"
  /\ printed' = TRUE
  /\ pc' = "drain"
  /\ UNCHANGED << input, flags, entities, dirs, i, clock, plan, written, failed,
                  exitCode, diskFiles, diskDirs >>

Pending == (1..Len(plan)) \ (written \cup failed)

\* The oldest render still pending (Len(plan) + 1 when there is none)
Oldest ==
  CHOOSE n \in 1..(Len(plan) + 1) :
    /\ n \notin (written \cup failed)
    /\ \A m \in 1..(n - 1) : m \in (written \cup failed)

\* renders whose continuation may run next: the oldest pending one, or one
\* called at most MaxOvertake calls after it
Ready == { n \in Oldest..(Oldest + MaxOvertake) : n <= Len(plan) /\ n \in Pending }

\* await ejs.renderFile(...) resolved; fs.outputFileSync(dest, content)
RenderWrite(n) ==
  /\ pc = "drain"
  /\ plan[n].tmpl \notin missingTemplates
  /\ written' = written \cup { n }
  /\ diskFiles' = diskFiles \cup { plan[n].dest }
  /\ diskDirs' = diskDirs \cup { DirOf(plan[n].dest) }
  /\ UNCHANGED << input, pc, flags, entities, dirs, i, clock, plan, failed, printed, exitCode >>

\* ejs.renderFile rejected: render's promise rejects, nobody handles it
RenderReject(n) ==
  /\ pc = "drain"
  /\ plan[n].tmpl \in missingTemplates
  /\ failed' = failed \cup { n }
  /\ UNCHANGED << input, pc, flags, entities, dirs, i, clock, plan, written, printed,
                  exitCode, diskFiles, diskDirs >>

\* the unhandled rejection ends the process with a non-zero code; renders
\* still pending at that moment never write
Crash ==
  /\ pc = "drain"
  /\ failed # { }
  /\ pc' = "exit"
  /\ exitCode' = "error"
  /\ UNCHANGED << input, flags, entities, dirs, i, clock, plan, written, failed, printed,
                  diskFiles, diskDirs >>

\* nothing left to run, no rejection: exit code 0
Exit ==
  /\ pc = "drain"
  /\ Pending = { }
  /\ failed = { }
  /\ pc' = "exit"
  /\ exitCode' = "ok"
  /\ UNCHANGED << input, flags, entities, dirs, i, clock, plan, written, failed, printed,
                  diskFiles, diskDirs >>

Next ==
  \/ LoadFail
  \/ LoadOk
  \/ Skeleton
  \/ RootFiles
  \/ Backend
  \/ ModelsLoop
  \/ ControllersLoop
  \/ IndexAndGraphql
  \/ Frontend
  \/ FeaturesLoop
  \/ Admin
  \/ Done
  \/ \E n \in Ready : RenderWrite(n)
  \/ \E n \in Ready : RenderReject(n)
  \/ Crash
  \/ Exit

\* The user starts the program again, on the same schema and options, after
\* a run that ended with code 0: a new process, the output directory as the
\* last run left it, a later clock.
Rerun ==
  /\ pc = "exit"
  /\ exitCode = "ok"
  /\ prevPlan = << >>
  /\ prevPlan' = plan
  /\ pc' = "load"
  /\ flags' = [f \in FlagNames |-> "unset"]
  /\ entities' = << >>
  /\ dirs' = << >>
  /\ i' = 1
  /\ clock' = clock + 1
  /\ plan' = << >>
  /\ written' = { }
  /\ failed' = { }
  /\ printed' = FALSE
  /\ exitCode' = "running"
  /\ UNCHANGED << variant, schemaStatus, schemaFlags, schemaEntities, opts,
                  missingTemplates, diskFiles, diskDirs, naming, rendering >>

NextTwice == Next \/ Rerun

\* ------------------------------------------------------------------ inputs
Post == [name |-> << "P","o","s","t" >>, tableName |-> << "p","o","s","t","s" >>]
Index == [name |-> << "i","n","d","e","x" >>, tableName |-> << "i","n","d","e","x","e","s" >>]
UserProfile == [name |-> << "U","s","e","r","P","r","o","f","i","l","e" >>,
                tableName |-> << "u","s","e","r","_","p","r","o","f","i","l","e","s" >>]
EntityPool == << Post, Index, UserProfile >>

\* the entities of EntityPool at the positions ps, in pool order
RECURSIVE Pick(_, _)
Pick(n, ps) ==
  IF n > Len(EntityPool) THEN << >>
  ELSE (IF n \in ps THEN << EntityPool[n] >> ELSE << >>) \o Pick(n + 1, ps)

\* entity lists of a schema: distinct entities, at most MaxEntities of them
EntityLists ==
  { Pick(1, ps) : ps \in { q \in SUBSET (1..Len(EntityPool)) : Cardinality(q) <= MaxEntities } }

SchemaValues == { "true", "false", "null", "absent" }

\* commander: --graphql defaults to false and the flag sets it; the other
\* four default to true and have no negating flag
OptsSet ==
  { [f \in FlagNames |-> IF f = "graphql" THEN g ELSE "true"] : g \in { "true", "false" } }

NoSchemaFlags == [f \in FlagNames |-> "absent"]

Stale == Lit("", "stale.txt")

\* the process right after start
Start ==
  /\ pc = "load"
  /\ flags = [f \in FlagNames |-> "unset"]
  /\ entities = << >>
  /\ dirs = << >>
  /\ i = 1
  /\ clock = 1
  /\ plan = << >>
  /\ written = { }
  /\ failed = { }
  /\ printed = FALSE
  /\ exitCode = "running"
  /\ diskDirs = { }
  /\ prevPlan = << >>
  /\ name = << >>
  /\ cur = << >>
  /\ applied = << >>
  /\ schema = << >>
  /\ data = << >>
  /\ context = << >>

Init ==
  /\ Start
  /\ variant \in { "generator.js", "part_000" }
  /\ schemaStatus \in { "ok", "missing", "malformed" }
  /\ schemaFlags = NoSchemaFlags
  /\ opts \in OptsSet
  /\ schemaEntities \in EntityLists
  /\ missingTemplates \in { { }, { "backend/src/routes/route.ts.ejs" } }
  /\ diskFiles = { Stale }

Spec == Init /\ [][Next]_vars

\* every combination of schema flag values and command-line flags; the
\* entity list and the template set vary only where no schema flag is set
InitFlags ==
  /\ Start
  /\ variant \in { "generator.js", "part_000" }
  /\ schemaStatus \in { "ok", "missing", "malformed" }
  /\ schemaFlags \in [FlagNames -> SchemaValues]
  /\ opts \in OptsSet
  /\ schemaEntities \in (IF schemaFlags = NoSchemaFlags THEN { << >>, << Post >> } ELSE { << >> })
  /\ missingTemplates = (IF schemaFlags = NoSchemaFlags THEN { "frontend/src/main.ts.ejs" } ELSE { })
  /\ diskFiles = { Stale }

SpecFlags == InitFlags /\ [][Next]_vars

Comment == [name |-> << "C","o","m","m","e","n","t" >>,
            tableName |-> << "c","o","m","m","e","n","t","s" >>]

\* two runs in a row on the same schema and options
InitTwice ==
  /\ Start
  /\ variant \in { "generator.js", "part_000" }
  /\ schemaStatus \in { "ok", "missing" }
  /\ schemaFlags = NoSchemaFlags
  /\ opts \in OptsSet
  /\ schemaEntities \in { SubSeq(<< Post, Comment, UserProfile >>, 1, k) : k \in 0..MaxEntities }
  /\ missingTemplates = (IF schemaEntities = << >> THEN { "frontend/src/main.ts.ejs" } ELSE { })
  /\ diskFiles = { Stale }

SpecTwice == InitTwice /\ [][NextTwice]_vars

\* ------------------------------------------------------ naming functions
\* A template applies a naming function to the value at hand.
main == << variant, schemaStatus, schemaFlags, schemaEntities, opts, missingTemplates,
           pc, flags, entities, dirs, i, clock, plan, written, failed, printed,
           exitCode, diskFiles, diskDirs, prevPlan >>

ApplyNaming(f, result) ==
  /\ Len(applied) < MaxApply
  /\ cur # << >>
  /\ cur' = result
  /\ applied' = Append(applied, f)
  /\ UNCHANGED << main, name, rendering >>

CallToPascal == ApplyNaming("toPascal", toPascal(cur))
CallToCamel == ApplyNaming("toCamel", toCamel(cur))
CallToKebab == ApplyNaming("toKebab", toKebab(cur))

NextNames == CallToPascal \/ CallToCamel \/ CallToKebab

\* identifiers: non-empty, over lower-case and upper-case letters and the hyphen
NameChars == { "p", "o", "P", "-" }

Names ==
  UNION { [1..k -> NameChars] : k \in 1..MaxNameLen }
    \cup { Post.name, Comment.name, UserProfile.name,
           << "u","s","e","r","-","p","r","o","f","i","l","e" >>,
           << "u","s","e","r","P","r","o","f","i","l","e" >> }

InitNames ==
  /\ pc = "load"
  /\ variant = "generator.js"
  /\ schemaStatus = "ok"
  /\ schemaFlags = NoSchemaFlags
  /\ opts \in { o \in OptsSet : o["graphql"] = "false" }
  /\ schemaEntities = << >>
  /\ missingTemplates = { }
  /\ diskFiles = { }
  /\ flags = [f \in FlagNames |-> "unset"]
  /\ entities = << >>
  /\ dirs = << >>
  /\ i = 1
  /\ clock = 1
  /\ plan = << >>
  /\ written = { }
  /\ failed = { }
  /\ printed = FALSE
  /\ exitCode = "running"
  /\ diskDirs = { }
  /\ prevPlan = << >>
  /\ name \in Names
  /\ cur = name
  /\ applied = << >>
  /\ schema = << >>
  /\ data = << >>
  /\ context = << >>

SpecNames == InitNames /\ [][NextNames]_vars

\* ------------------------------------------------------- render context
\* the bindings the schema is destructured into
Binding(sch, k) ==
  IF k \in DOMAIN sch THEN sch[k]
  ELSE IF k \in { "dbDev", "dbTest" } THEN "sqlite"
  ELSE "undefined"

\* the names render() adds to the data of every call
Globals == { "toPascal", "toCamel", "toKebab", "schema" }

\* { ...data, toPascal, toCamel, toKebab, schema }: a later key replaces an
\* earlier one of the same name; a naming function is written as its name
Context(d, sch) ==
  [k \in DOMAIN d \cup Globals |->
     IF k = "schema" THEN sch
     ELSE IF k \in Globals THEN k
     ELSE d[k]]

Render ==
  /\ DOMAIN context = { }
  /\ context' = Context(data, schema)
  /\ UNCHANGED << main, naming, schema, data >>

NextRender == Render

StringFields == { "projectName", "dbDev", "dbTest", "authEntity" }

FieldValues(k) ==
  IF k = "projectName" THEN { "shop", "blog" }
  ELSE IF k = "authEntity" THEN { "User" }
  ELSE { "postgres" }

\* schema documents with any of the string fields present
Schemas ==
  UNION { { f \in [S -> { "shop", "blog", "User", "postgres" }] :
              \A k \in S : f[k] \in FieldValues(k) } : S \in SUBSET StringFields }

\* the keys of the data of the calls for Dockerfile.backend, docker-compose.yml,
\* tsconfig.json, .env.example, database.ts and middleware/auth.ts
DataKeys ==
  { { "projectName" }, { "projectName", "schema" }, { }, { "schema" },
    { "dbDev", "dbTest" }, { "authEntity" } }

DataOf(keys, sch) == [k \in keys |-> IF k = "schema" THEN sch ELSE Binding(sch, k)]

InitRender ==
  /\ pc = "load"
  /\ variant = "generator.js"
  /\ schemaStatus = "ok"
  /\ schemaFlags = NoSchemaFlags
  /\ opts \in { o \in OptsSet : o["graphql"] = "false" }
  /\ schemaEntities = << >>
  /\ missingTemplates = { }
  /\ diskFiles = { }
  /\ flags = [f \in FlagNames |-> "unset"]
  /\ entities = << >>
  /\ dirs = << >>
  /\ i = 1
  /\ clock = 1
  /\ plan = << >>
  /\ written = { }
  /\ failed = { }
  /\ printed = FALSE
  /\ exitCode = "running"
  /\ diskDirs = { }
  /\ prevPlan = << >>
  /\ name = << >>
  /\ cur = << >>
  /\ applied = << >>
  /\ schema \in Schemas
  /\ \E keys \in DataKeys : data = DataOf(keys, schema)
  /\ context = << >>

SpecRender == InitRender /\ [][NextRender]_vars

\* ------------------------------------------------------------- properties
\* the main script has made all its render() calls
Planned == schemaStatus = "ok" /\ pc \in { "done", "drain", "exit" }

\* the schema was loaded and destructured
Loaded == schemaStatus = "ok" /\ pc # "load"

\* number of calls of the plan with template t and entity index n
CountT(t, n) == Cardinality({ j \in 1..Len(plan) : plan[j].tmpl = t /\ plan[j].ent = n })

\* number of occurrences of the call c in the plan
Count(c) == Cardinality({ j \in 1..Len(plan) : plan[j] = c })

Templates(calls) == { calls[n].tmpl : n \in 1..Len(calls) }

\* The resolution rule as documented: an explicit true/false of the schema
\* wins, anything else defers to the command-line default.
Resolve(v, dflt) == IF v \in { "true", "false" } THEN v ELSE dflt

\* C1: each of the five resolved flags equals the schema value when that is
\* an explicit true or false, and the command-line default when the schema
\* value is absent or null.
C1_ResolvedByRule ==
  Loaded => \A f \in FlagNames : flags[f] = Resolve(schemaFlags[f], opts[f])

\* C2: every gate reads the resolved flag: the two GraphQL files are planned
\* (once each) iff graphql is resolved true, the five admin files iff
\* adminPanel is, the terraform files iff terraform is, and the admin and
\* terraform skeleton directories are in dirs iff the same flags are.
C2_GatesUseResolved ==
  Planned =>
    /\ \A n \in 1..Len(GraphqlFiles) :
         Count(GraphqlFiles[n]) = (IF Truthy(flags["graphql"]) THEN 1 ELSE 0)
    /\ \A n \in 1..Len(AdminFiles) :
         Count(AdminFiles[n]) = (IF Truthy(flags["adminPanel"]) THEN 1 ELSE 0)
    /\ \A n \in 1..Len(TerraformFiles) :
         Count(TerraformFiles[n]) = (IF Truthy(flags["terraform"]) THEN 1 ELSE 0)
    /\ \A n \in 1..Len(AdminDirs) :
         (AdminDirs[n] \in Range(dirs)) <=> Truthy(flags["adminPanel"])
    /\ \A n \in 1..Len(TerraformDirs) :
         (TerraformDirs[n] \in Range(dirs)) <=> Truthy(flags["terraform"])

IsMigration(c) == c.tmpl = "backend/migrations/create-table.ts.ejs"

Migrations == SelectSeq(plan, IsMigration)

\* C3: a schema with k entities gets exactly k migration calls, one per
\* entity in schema order, with strictly increasing timestamps.
C3_MigrationStampsIncrease ==
  Planned =>
    /\ Len(Migrations) = Len(entities)
    /\ \A n \in 1..Len(Migrations) :
         /\ Migrations[n].ent = n
         /\ Migrations[n].dest.base = entities[n].tableName
         /\ n < Len(Migrations) => Migrations[n].dest.stamp < Migrations[n + 1].dest.stamp

\* C4: no two calls of one run have the same destination path.
C4_UniqueDestinations ==
  \A a, b \in 1..Len(plan) : a # b => plan[a].dest # plan[b].dest

\* C5: with the schema file missing or not JSON, the only step of the run
\* ends it with a non-zero code and leaves the output directory as it was:
\* nothing cleared, no directory created, no render called.
C5_LoadErrorTouchesNothing ==
  [][ (pc = "load" /\ schemaStatus # "ok") =>
        /\ pc' = "exit"
        /\ exitCode' = "error"
        /\ diskFiles' = diskFiles
        /\ diskDirs' = diskDirs
        /\ dirs' = << >>
        /\ plan' = << >>
        /\ written' = { }
        /\ printed' = FALSE ]_vars

C5_Witness ==
  /\ schemaStatus = "malformed"
  /\ pc = "exit"
  /\ exitCode = "error"
  /\ Stale \in diskFiles

\* C6: once the render of one call has failed, the run has not reported
\* success and no call later in the plan than the failed one is written.
C6_AbortOnRenderFailure ==
  \A f \in failed :
    /\ ~printed
    /\ \A w \in written : w < f

\* C7: the first render writes only after the output directory was emptied
\* and every directory of the skeleton created, and no file written by a
\* render of the run is missing from the output directory afterwards.
C7_SkeletonBeforeRenders ==
  /\ written # { } =>
       /\ pc \in { "drain", "exit" }
       /\ Stale \notin diskFiles
       /\ Range(BaseDirs) \subseteq Range(dirs)
       /\ Range(dirs) \subseteq diskDirs
  /\ \A n \in written : plan[n].dest \in diskFiles

\* a render has written while the one called just before it is pending
C7_Witness ==
  /\ \E n \in written : n > 1 /\ (n - 1) \in Pending
  /\ Stale \notin diskFiles
  /\ Range(dirs) \subseteq diskDirs

RootTemplates == Templates(DockerFiles \o CiFiles \o TerraformFiles)
BackendTemplates == Templates(BackendCommon \o << AuthRoute >>)
GraphqlTemplates == Templates(GraphqlFiles)
FrontendTemplates == Templates(FrontendFixed)
AdminTemplates == Templates(AdminFiles)
ModelTemplates == Templates(ModelCalls(Post, 1, 1))
ControllerTemplates == Templates(ControllerCalls(Post, 1))
FeatureTemplates == Templates(FeatureCalls(Post, 1))

\* C8: the plan holds the nine backend fixed artifacts (the authentication
\* route set among them), the frontend fixed artifacts and one
\* route-aggregation file, each once, and per entity exactly five backend
\* and six frontend artifacts.
C8_PlanContents ==
  Planned =>
    /\ \A t \in BackendTemplates : CountT(t, 0) = 1
    /\ \A t \in FrontendTemplates : CountT(t, 0) = 1
    /\ CountT(RouteIndex.tmpl, 0) = 1
    /\ \A n \in 1..Len(entities) :
         /\ \A t \in ModelTemplates \cup ControllerTemplates \cup FeatureTemplates :
              CountT(t, n) = 1
         /\ Cardinality({ j \in 1..Len(plan) : plan[j].ent = n }) = 11
    /\ \A j \in 1..Len(plan) : plan[j].ent \in 0..Len(entities)

\* Stage of a template in the documented order. split = FALSE: the five
\* per-entity backend artifacts are one stage; split = TRUE: model,
\* migration and test are one stage, controller and route the next.
StageOf(t, split) ==
  IF t \in RootTemplates THEN 1
  ELSE IF t \in BackendTemplates THEN 2
  ELSE IF t \in ModelTemplates THEN 3
  ELSE IF t \in ControllerTemplates THEN (IF split THEN 4 ELSE 3)
  ELSE IF t = RouteIndex.tmpl THEN 5
  ELSE IF t \in GraphqlTemplates THEN 6
  ELSE IF t \in FrontendTemplates THEN 7
  ELSE IF t \in FeatureTemplates THEN 8
  ELSE IF t \in AdminTemplates THEN 9
  ELSE 0

\* call a of the plan may come before call b: an earlier stage, or the same
\* stage and not a later entity
InOrder(a, b, split) ==
  LET sa == StageOf(plan[a].tmpl, split)
      sb == StageOf(plan[b].tmpl, split)
  IN sa > 0 /\ sb > 0 /\ (sa < sb \/ (sa = sb /\ plan[a].ent <= plan[b].ent))

\* C9 as stated: stage order, with the five backend artifacts of entity i
\* all before any backend artifact of entity i+1. (InOrder is a total
\* preorder, so holding for every call and the next one is holding for
\* every pair.)
C9_StageOrderGrouped ==
  \A a \in 1..(Len(plan) - 1) : InOrder(a, a + 1, FALSE)

\* C9 amended: stage order, where the per-entity backend artifacts come in
\* two passes over the entities: model, migration and test of every entity
\* in schema order, then controller and route of every entity in schema order.
C9_StageOrderTwoPasses ==
  \A a \in 1..(Len(plan) - 1) : InOrder(a, a + 1, TRUE)

C9_Witness ==
  /\ Planned
  /\ Len(entities) >= 2
  /\ CountT("backend/src/graphql/typeDefs.ts.ejs", 0) = 1
  /\ CountT("frontend/src/app/pages/pages.module.ts.ejs", 0) = 1
  /\ \E a, b \in 1..Len(plan) :
       a < b /\ plan[a].ent = 2 /\ plan[b].ent = 1 /\ plan[b].tmpl \in ControllerTemplates

\* the (template id, destination path) list of a plan
Entries(p) == [n \in 1..Len(p) |-> [tmpl |-> p[n].tmpl, dest |-> p[n].dest]]

\* the same list with the timestamp of the migration paths blanked
EntriesNoStamp(p) ==
  [n \in 1..Len(p) |->
     [tmpl |-> p[n].tmpl,
      dest |-> IF IsMigration(p[n]) THEN [p[n].dest EXCEPT !.stamp = 0] ELSE p[n].dest]]

C11_KebabOfPascal ==
  applied = << "toPascal", "toKebab" >> => cur = toKebab(name)

\* toKebab as documented: the lower-cased s with a hyphen before every
\* upper-case character except a leading one
RECURSIVE DocumentedKebabFrom(_, _)
DocumentedKebabFrom(s, leading) ==
  IF s = << >> THEN << >>
  ELSE (IF IsUpper(Head(s)) /\ ~leading THEN << "-", toLowerCase(Head(s)) >>
        ELSE << toLowerCase(Head(s)) >>)
       \o DocumentedKebabFrom(Tail(s), FALSE)

DocumentedKebab(s) == DocumentedKebabFrom(s, TRUE)

IsLowerLetter(c) == \E n \in 1..Len(LowerSeq) : LowerSeq[n] = c

\* a kebab-case identifier without digits: lower-case words joined by single hyphens
IsKebabCase(s) ==
  /\ s # << >>
  /\ \A n \in 1..Len(s) : IsLowerLetter(s[n]) \/ s[n] = "-"
  /\ s[1] # "-"
  /\ s[Len(s)] # "-"
  /\ \A n \in 1..(Len(s) - 1) : ~(s[n] = "-" /\ s[n + 1] = "-")

\* C12: toKebab(s) is the lower-cased s with a hyphen before every upper-case
\* character except a leading one; toKebab(toPascal(s)) = s for kebab-case s;
\* entity name "Post" gives the route file routes/post.ts and the feature
\* directory features/post.
C12_KebabAsDocumented ==
  /\ applied = << "toKebab" >> => cur = DocumentedKebab(name)
  /\ (applied = << "toPascal", "toKebab" >> /\ IsKebabCase(name)) => cur = name
  /\ (applied = << "toKebab" >> /\ name = Post.name) =>
       /\ ControllerCalls(Post, 1)[2].dest = Path(ROUTES, << >>, 0, << "p","o","s","t" >>, ".ts")
       /\ FeaturePath(Post) = [dir |-> FEATURES, sub |-> << "p","o","s","t" >>]

\* the merge as documented: the naming functions, then the schema (its fields
\* and the schema itself), then the data of the call, a later layer replacing
\* an earlier one
DocumentedContext(d, sch) ==
  [k \in Globals \cup DOMAIN sch \cup DOMAIN d |->
     IF k \in DOMAIN d THEN d[k]
     ELSE IF k \in DOMAIN sch THEN sch[k]
     ELSE IF k = "schema" THEN sch
     ELSE k]

\* C13: the context render() passes to the templating backend is the merge,
\* in increasing precedence, of the naming functions, the schema fields and
\* the data of the call; a key of the data that is also a schema field or one
\* of toPascal, toCamel, toKebab, schema has the data's value.
C13_ContextIsDocumentedMerge ==
  DOMAIN context # { } =>
    /\ context = DocumentedContext(data, schema)
    /\ \A k \in DOMAIN data \cap (DOMAIN schema \cup Globals) : context[k] = data[k]

\* C14: "Project generated at" is printed only after every planned artifact
\* of the run has been written: whenever the message has been printed, no
\* render() call of the run is still unwritten.
C14_MessageAfterAllWritten == printed => written = 1..Len(plan)

====
